---- MODULE Spec2Model ----
(***************************************************************************)
(* Model of the checkers rules engine, GameService                         *)
(* (src/src/app/services/game.service.ts): the board, the current player,  *)
(* the selected piece and the gameOver flag, with the three public          *)
(* operations initializeBoard, selectPiece and movePiece.                   *)
(***************************************************************************)
EXTENDS Integers, Sequences, FiniteSets, TLC

\* ------------------------------------------------------------------ bounds

\* Successful moves explored after a fresh start (constructor or reset).
MaxMoves == 1

\* Successful moves explored after the recorded game Game.
MaxEndMoves == 3

\* ------------------------------------------------------- program constants

\* Array.from({ length: 8 }, ...): the board is 8 x 8.
Size == 8

Rows == 0 .. (Size - 1)
Cells == Rows \X Rows

\* selectedPiece: { row, col } | null. null is the record no cell equals.
Null == [row |-> -1, col |-> -1]

\* The cell values: '' (empty), 'red', 'black', 'red-king', 'black-king'.
Tags == {"", "red", "black", "red-king", "black-king"}

Abs(x) == IF x < 0 THEN -x ELSE x

\* `${currentPlayer}-king`
KingTag(player) == IF player = "red" THEN "red-king" ELSE "black-king"

StartsWithExactly(piece, color) == piece = color

\* piece.startsWith(color), for color 'red' or 'black': of the five cell
\* values, exactly color itself and color + '-king' start with color.
StartsWith(piece, color) == piece = color \/ piece = KingTag(color)

\* piece.includes('king')
IncludesKing(piece) == piece \in {"red-king", "black-king"}

\* What a cell value stands for: the two players, the owner of a piece
\* ("none" for the empty cell) and its rank.
Players == {"red", "black"}
Owner(piece) ==
  IF piece \in {"red", "red-king"} THEN "red"
  ELSE IF piece \in {"black", "black-king"} THEN "black"
  ELSE "none"
IsMan(piece) == piece \in {"red", "black"}
IsKing(piece) == piece \in {"red-king", "black-king"}

\* ---------------------------------------------------------- initializeBoard

InitialCellOnLight(row, col) ==
  IF row < 3 /\ (row + col) % 2 = 0 THEN "black"
  ELSE IF row > 4 /\ (row + col) % 2 = 0 THEN "red"
  ELSE ""

\* The callback of the inner Array.from: the starting value of one cell.
InitialCell(row, col) ==
  IF row < 3 /\ (row + col) % 2 = 1 THEN "black"
  ELSE IF row > 4 /\ (row + col) % 2 = 1 THEN "red"
  ELSE ""

\* The field initializers of the class, before the constructor body runs.
FieldInitializers ==
  [board |-> <<>>, currentPlayer |-> "red", selectedPiece |-> Null,
   gameOver |-> FALSE]

InitializeBoardKeepingGameOver(s) ==
  [board |-> [row \in Rows |-> [col \in Rows |-> InitialCell(row, col)]],
   currentPlayer |-> "red",
   selectedPiece |-> Null,
   gameOver |-> s.gameOver]

\* initializeBoard(): every field is assigned, whatever the state s was.
InitializeBoard(s) ==
  [board |-> [row \in Rows |-> [col \in Rows |-> InitialCell(row, col)]],
   currentPlayer |-> "red",
   selectedPiece |-> Null,
   gameOver |-> FALSE]

\* constructor(): this.initializeBoard().
Constructed == InitializeBoard(FieldInitializers)

\* -------------------------------------------------------------- selectPiece

SelectPieceOfAnyone(s, row, col) ==
  IF s.board[row][col] # ""
  THEN [state |-> [s EXCEPT !.selectedPiece = [row |-> row, col |-> col]],
        result |-> "true"]
  ELSE [state |-> s, result |-> "false"]

\* selectPiece(row, col) on state s: the state after, and the value returned.
SelectPiece(s, row, col) ==
  IF StartsWith(s.board[row][col], s.currentPlayer)
  THEN [state |-> [s EXCEPT !.selectedPiece = [row |-> row, col |-> col]],
        result |-> "true"]
  ELSE [state |-> s, result |-> "false"]

\* ---------------------------------------------------------------- movePiece

SwitchPlayerToBlack(currentPlayer) == "black"

\* switchPlayer()
SwitchPlayer(currentPlayer) == IF currentPlayer = "red" THEN "black" ELSE "red"

\* countPieces(color)
CountPieces(board, color) ==
  Cardinality({cell \in Cells : StartsWith(board[cell[1]][cell[2]], color)})

CheckGameOverAtOne(board, gameOver) ==
  IF CountPieces(board, "red") <= 1 THEN TRUE
  ELSE IF CountPieces(board, "black") <= 1 THEN TRUE
  ELSE gameOver

CheckGameOverRedOnly(board, gameOver) ==
  IF CountPieces(board, "red") = 0 THEN TRUE ELSE gameOver

\* checkGameOver(): the value of gameOver after it ran.
CheckGameOver(board, gameOver) ==
  IF CountPieces(board, "red") = 0 THEN TRUE
  ELSE IF CountPieces(board, "black") = 0 THEN TRUE
  ELSE gameOver

ForwardMoveUpOnly(currentPlayer, dy) == dy = -1

ForwardMoveEitherWay(currentPlayer, dy) == dy = -1 \/ dy = 1

\* forwardMove of isValidMove.
ForwardMove(currentPlayer, dy) ==
  \/ currentPlayer = "red" /\ dy = -1
  \/ currentPlayer = "black" /\ dy = 1

JumpsAnyPiece(board, currentPlayer, jumpedRow, jumpedCol) ==
  board[jumpedRow][jumpedCol] # ""

\* The jump branch of isValidMove: the jumped cell holds a piece that is not
\* the current player's.
JumpsEnemy(board, currentPlayer, jumpedRow, jumpedCol) ==
  /\ board[jumpedRow][jumpedCol] # ""
  /\ ~StartsWith(board[jumpedRow][jumpedCol], currentPlayer)

IsValidMoveOntoOccupied(s, targetRow, targetCol) ==
  LET row == s.selectedPiece.row
      col == s.selectedPiece.col
      dx == targetCol - col
      dy == targetRow - row
  IN  IF Abs(dx) = 1 /\ Abs(dy) = 1
        THEN IncludesKing(s.board[row][col]) \/ ForwardMove(s.currentPlayer, dy)
      ELSE IF Abs(dx) = 2 /\ Abs(dy) = 2
        THEN JumpsEnemy(s.board, s.currentPlayer,
                        (row + targetRow) \div 2, (col + targetCol) \div 2)
      ELSE FALSE

IsValidMoveAnyStep(s, targetRow, targetCol) ==
  LET row == s.selectedPiece.row
      col == s.selectedPiece.col
      piece == s.board[row][col]
      dx == targetCol - col
      dy == targetRow - row
      isKing == IncludesKing(piece)
  IN  IF s.board[targetRow][targetCol] # "" THEN FALSE
      ELSE IF Abs(dx) <= 1 /\ Abs(dy) = 1
        THEN isKing \/ ForwardMove(s.currentPlayer, dy)
      ELSE IF Abs(dx) = 2 /\ Abs(dy) = 2
        THEN JumpsEnemy(s.board, s.currentPlayer,
                        (row + targetRow) \div 2, (col + targetCol) \div 2)
      ELSE FALSE

\* isValidMove(targetRow, targetCol), called with a piece selected.
IsValidMove(s, targetRow, targetCol) ==
  LET row == s.selectedPiece.row
      col == s.selectedPiece.col
      piece == s.board[row][col]
      dx == targetCol - col
      dy == targetRow - row
      isKing == IncludesKing(piece)
  IN  IF s.board[targetRow][targetCol] # "" THEN FALSE
      ELSE IF Abs(dx) = 1 /\ Abs(dy) = 1
        THEN isKing \/ ForwardMove(s.currentPlayer, dy)
      ELSE IF Abs(dx) = 2 /\ Abs(dy) = 2
        THEN JumpsEnemy(s.board, s.currentPlayer,
                        (row + targetRow) \div 2, (col + targetCol) \div 2)
      ELSE FALSE

PromotesRedOnly(currentPlayer, targetRow) ==
  currentPlayer = "red" /\ targetRow = 0

\* The king promotion test of movePiece.
Promotes(currentPlayer, targetRow) ==
  \/ currentPlayer = "red" /\ targetRow = 0
  \/ currentPlayer = "black" /\ targetRow = 7

MovedBoardLeavingSource(s, targetRow, targetCol) ==
  LET row == s.selectedPiece.row
      col == s.selectedPiece.col
      moved == [s.board EXCEPT ![targetRow][targetCol] = s.board[row][col]]
      jumped ==
        IF Abs(targetRow - row) = 2
        THEN [moved EXCEPT ![(row + targetRow) \div 2]
                            [(col + targetCol) \div 2] = ""]
        ELSE moved
  IN  IF Promotes(s.currentPlayer, targetRow)
      THEN [jumped EXCEPT ![targetRow][targetCol] = KingTag(s.currentPlayer)]
      ELSE jumped

MovedBoardDroppingRank(s, targetRow, targetCol) ==
  LET row == s.selectedPiece.row
      col == s.selectedPiece.col
      moved == [[s.board EXCEPT ![targetRow][targetCol] = s.currentPlayer]
                  EXCEPT ![row][col] = ""]
      jumped ==
        IF Abs(targetRow - row) = 2
        THEN [moved EXCEPT ![(row + targetRow) \div 2]
                            [(col + targetCol) \div 2] = ""]
        ELSE moved
  IN  IF Promotes(s.currentPlayer, targetRow)
      THEN [jumped EXCEPT ![targetRow][targetCol] = KingTag(s.currentPlayer)]
      ELSE jumped

MovedBoardKeepingJumped(s, targetRow, targetCol) ==
  LET row == s.selectedPiece.row
      col == s.selectedPiece.col
      piece == s.board[row][col]
      moved == [[s.board EXCEPT ![targetRow][targetCol] = piece]
                  EXCEPT ![row][col] = ""]
  IN  IF Promotes(s.currentPlayer, targetRow)
      THEN [moved EXCEPT ![targetRow][targetCol] = KingTag(s.currentPlayer)]
      ELSE moved

\* The board after the three writes of a valid move: the piece moved, the
\* jumped piece removed, the promotion.
MovedBoard(s, targetRow, targetCol) ==
  LET row == s.selectedPiece.row
      col == s.selectedPiece.col
      piece == s.board[row][col]
      moved == [[s.board EXCEPT ![targetRow][targetCol] = piece]
                  EXCEPT ![row][col] = ""]
      jumped ==
        IF Abs(targetRow - row) = 2
        THEN [moved EXCEPT ![(row + targetRow) \div 2]
                            [(col + targetCol) \div 2] = ""]
        ELSE moved
  IN  IF Promotes(s.currentPlayer, targetRow)
      THEN [jumped EXCEPT ![targetRow][targetCol] = KingTag(s.currentPlayer)]
      ELSE jumped

RejectedKeepingSelection(s) == s

\* The state movePiece leaves when isValidMove says no: the piece deselected.
Rejected(s) == [s EXCEPT !.selectedPiece = Null]

\* movePiece(targetRow, targetCol) on state s: the state after, and the value
\* returned. With no piece selected, isValidMove destructures null and the
\* call throws a TypeError before anything is written.
MovePiece(s, targetRow, targetCol) ==
  IF s.selectedPiece = Null
  THEN [state |-> s, result |-> "TypeError"]
  ELSE IF ~IsValidMove(s, targetRow, targetCol)
  THEN [state |-> Rejected(s), result |-> "false"]
  ELSE LET after == MovedBoard(s, targetRow, targetCol)
       IN  [state |-> [board |-> after,
                       currentPlayer |-> SwitchPlayer(s.currentPlayer),
                       selectedPiece |-> Null,
                       gameOver |-> CheckGameOver(after, s.gameOver)],
            result |-> "true"]

\* ------------------------------------------------------------ a recorded game

\* A game played through the engine from construction, which the exploration
\* follows to reach the late positions of a game: each entry is one turn,
\* selectPiece(row, col) followed by movePiece(targetRow, targetCol), as
\* <<row, col, targetRow, targetCol>>. It has captures by men and by kings,
\* forward and backward, and promotions of both sides, and it ends with red to
\* move, a red man on (1,0), a red man on (7,6) and black's last man on (6,5).
Game == <<
    <<5, 0, 4, 1>>, <<2, 3, 3, 4>>, <<4, 1, 3, 2>>, <<2, 1, 4, 3>>,
    <<5, 4, 3, 2>>, <<2, 7, 3, 6>>, <<5, 2, 4, 1>>, <<1, 6, 2, 7>>,
    <<3, 2, 2, 1>>, <<1, 2, 3, 0>>, <<6, 1, 5, 0>>, <<3, 0, 5, 2>>,
    <<6, 3, 4, 1>>, <<3, 6, 4, 7>>, <<7, 2, 6, 3>>, <<0, 5, 1, 6>>,
    <<5, 6, 4, 5>>, <<3, 4, 5, 6>>, <<6, 7, 4, 5>>, <<2, 5, 3, 4>>,
    <<4, 5, 2, 3>>, <<1, 4, 3, 2>>, <<4, 1, 2, 3>>, <<0, 3, 1, 4>>,
    <<2, 3, 0, 5>>, <<2, 7, 3, 6>>, <<0, 5, 2, 7>>, <<3, 6, 4, 5>>,
    <<5, 0, 4, 1>>, <<0, 7, 1, 6>>, <<2, 7, 0, 5>>, <<4, 5, 5, 6>>,
    <<6, 3, 5, 4>>, <<5, 6, 6, 7>>, <<7, 4, 6, 3>>, <<1, 0, 2, 1>>,
    <<0, 5, 1, 4>>, <<2, 1, 3, 0>>, <<7, 0, 6, 1>>, <<0, 1, 1, 2>>,
    <<1, 4, 0, 3>>, <<3, 0, 5, 2>>, <<6, 1, 4, 3>>, <<1, 2, 2, 3>>,
    <<0, 3, 1, 4>>, <<2, 3, 0, 5>>, <<6, 5, 5, 6>>, <<4, 7, 6, 5>>,
    <<4, 3, 3, 4>>, <<0, 5, 1, 6>>, <<3, 4, 2, 5>>, <<1, 6, 3, 4>>,
    <<5, 4, 4, 5>>, <<3, 4, 5, 6>>, <<6, 3, 5, 2>>, <<6, 5, 7, 4>>,
    <<5, 2, 4, 1>>, <<7, 4, 6, 3>>, <<4, 1, 3, 0>>, <<6, 3, 5, 4>>,
    <<3, 0, 2, 1>>, <<5, 4, 6, 5>>, <<7, 6, 5, 4>>, <<6, 7, 7, 6>>,
    <<2, 1, 1, 0>>, <<7, 6, 6, 5>>, <<5, 4, 7, 6>>, <<5, 6, 6, 5>>
  >>

\* -------------------------------------------------------------------- state

VARIABLES
  board,          \* this.board
  currentPlayer,  \* this.currentPlayer
  selectedPiece,  \* this.selectedPiece
  gameOver,       \* this.gameOver
  prev,           \* the four fields as they were when the last call began
  last,           \* the last call: its name and what it returned
  moveCount,      \* successful movePiece calls since the last initializeBoard
  replayed        \* the turns of Game played, while the successful moves since
                  \* the last initializeBoard are exactly those; else -1

vars ==
  <<board, currentPlayer, selectedPiece, gameOver, prev, last, moveCount,
    replayed>>

\* The four fields of the service, as one record.
State ==
  [board |-> board, currentPlayer |-> currentPlayer,
   selectedPiece |-> selectedPiece, gameOver |-> gameOver]

\* The fields take the values of record s.
Becomes(s) ==
  /\ board' = s.board
  /\ currentPlayer' = s.currentPlayer
  /\ selectedPiece' = s.selectedPiece
  /\ gameOver' = s.gameOver

\* The service as constructed.
Init ==
  /\ board = Constructed.board
  /\ currentPlayer = Constructed.currentPlayer
  /\ selectedPiece = Constructed.selectedPiece
  /\ gameOver = Constructed.gameOver
  /\ prev = FieldInitializers
  /\ last = [op |-> "initializeBoard", result |-> "void"]
  /\ moveCount = 0
  /\ replayed = 0

\* movePiece(targetRow, targetCol) is the next move of the recorded game.
Recorded(targetRow, targetCol) ==
  /\ replayed >= 0
  /\ replayed < Len(Game)
  /\ selectedPiece = [row |-> Game[replayed + 1][1], col |-> Game[replayed + 1][2]]
  /\ targetRow = Game[replayed + 1][3]
  /\ targetCol = Game[replayed + 1][4]

\* The exploration bound: a successful move is explored within MaxMoves moves
\* of a fresh start and within MaxEndMoves moves of the end of the recorded
\* game; in between, the recorded game is followed.
WithinBounds ==
  \/ moveCount < MaxMoves
  \/ moveCount >= Len(Game) /\ moveCount < Len(Game) + MaxEndMoves

\* initializeBoard(), the constructor's call and the component's resetGame().
Initialize ==
  /\ Becomes(InitializeBoard(State))
  /\ prev' = State
  /\ last' = [op |-> "initializeBoard", result |-> "void"]
  /\ moveCount' = 0
  /\ replayed' = 0

\* selectPiece(row, col)
Select(row, col) ==
  LET call == SelectPiece(State, row, col)
  IN  /\ Becomes(call.state)
      /\ prev' = State
      /\ last' = [op |-> "selectPiece", result |-> call.result]
      /\ UNCHANGED <<moveCount, replayed>>

\* movePiece(targetRow, targetCol)
Move(targetRow, targetCol) ==
  LET call == MovePiece(State, targetRow, targetCol)
  IN  /\ call.result = "true" => WithinBounds \/ Recorded(targetRow, targetCol)
      /\ Becomes(call.state)
      /\ prev' = State
      /\ last' = [op |-> "movePiece", result |-> call.result]
      /\ moveCount' = IF call.result = "true" THEN moveCount + 1 ELSE moveCount
      /\ replayed' = IF call.result # "true" THEN replayed
                     ELSE IF Recorded(targetRow, targetCol) THEN replayed + 1
                     ELSE -1

Next ==
  \/ Initialize
  \/ \E row \in Rows, col \in Rows : Select(row, col)
  \/ \E targetRow \in Rows, targetCol \in Rows : Move(targetRow, targetCol)

Spec == Init /\ [][Next]_vars

\* ------------------------------------------------------- CheckersComponent

\* A click that returns before it calls the service.
Ignored ==
  /\ UNCHANGED <<board, currentPlayer, selectedPiece, gameOver>>
  /\ prev' = State
  /\ last' = [op |-> "none", result |-> "void"]
  /\ UNCHANGED <<moveCount, replayed>>

OnCellClickAlwaysMoving(row, col) ==
  IF gameOver THEN Ignored ELSE Move(row, col)

\* onCellClick(row, col)
OnCellClick(row, col) ==
  IF gameOver THEN Ignored
  ELSE IF selectedPiece # Null THEN Move(row, col)
  ELSE Select(row, col)

\* handleClick(row, col): a click on an opponent's piece is dropped.
HandleClick(row, col) ==
  IF board[row][col] # "" /\ ~StartsWith(board[row][col], currentPlayer)
  THEN Ignored
  ELSE OnCellClick(row, col)

\* resetGame()
ResetGame == Initialize

\* The service driven through the component only.
NextUI ==
  \/ ResetGame
  \/ \E row \in Rows, col \in Rows : HandleClick(row, col)

SpecUI == Init /\ [][NextUI]_vars

\* ------------------------------------------------------------- the last call

\* The last call was a movePiece that returned true.
Moved == last.op = "movePiece" /\ last.result = "true"

\* The last call was a movePiece with a piece selected that returned false.
Refused ==
  last.op = "movePiece" /\ last.result = "false" /\ prev.selectedPiece # Null

\* After Moved: the cell the piece left and the cell it went to (the one cell
\* that was empty before the call and holds a piece after it).
Source == <<prev.selectedPiece.row, prev.selectedPiece.col>>
Target ==
  CHOOSE cell \in Cells :
    prev.board[cell[1]][cell[2]] = "" /\ board[cell[1]][cell[2]] # ""

\* The pieces of a player on board b.
PiecesOf(b, player) == {cell \in Cells : Owner(b[cell[1]][cell[2]]) = player}

\* The board, the current player and gameOver are as the last call found them.
RestUnchanged ==
  /\ board = prev.board
  /\ currentPlayer = prev.currentPlayer
  /\ gameOver = prev.gameOver

\* ------------------------------------------------------------------- claims

\* C1: a movePiece call that fails with a piece selected returns false, leaves
\* no piece selected, and leaves the board, the current player and gameOver
\* as they were.
C1_FailedMoveOnlyDeselects ==
  /\ last.op = "movePiece" /\ prev.selectedPiece # Null
       => last.result \in {"true", "false"}
  /\ Refused => selectedPiece = Null /\ RestUnchanged

\* C1 witness: a move of a selected king was refused.
C1_Witness ==
  /\ Refused /\ selectedPiece = Null
  /\ IsKing(prev.board[prev.selectedPiece.row][prev.selectedPiece.col])

\* C2: a successful movePiece hands the turn to the other player, every other
\* call leaves the current player alone, and so red is to move exactly when
\* the number of successful moves since initializeBoard is even.
C2_TurnsAlternate ==
  /\ currentPlayer \in Players
  /\ Moved => currentPlayer # prev.currentPlayer
  /\ last.op = "movePiece" /\ last.result # "true"
       => currentPlayer = prev.currentPlayer
  /\ last.op = "selectPiece" => currentPlayer = prev.currentPlayer
  /\ currentPlayer = "red" <=> moveCount % 2 = 0

\* C2 witness: the second successful move of a game has handed the turn back
\* to red.
C2_Witness == Moved /\ moveCount = 2 /\ currentPlayer = "red"

\* C3: selectPiece(row, col) returns true and selects (row, col) exactly when
\* the cell holds a man or king of the current player; otherwise it returns
\* false and the selection stays; the board, the player and gameOver stay.
C3_SelectOwnPieceOnly ==
  /\ \A row \in Rows, col \in Rows :
       LET call == SelectPiece(State, row, col)
       IN  /\ IF Owner(board[row][col]) = currentPlayer
              THEN /\ call.result = "true"
                   /\ call.state.selectedPiece = [row |-> row, col |-> col]
              ELSE /\ call.result = "false"
                   /\ call.state.selectedPiece = selectedPiece
           /\ call.state.board = board
           /\ call.state.currentPlayer = currentPlayer
           /\ call.state.gameOver = gameOver
  /\ last.op = "selectPiece" =>
       /\ RestUnchanged
       /\ last.result \in {"true", "false"}
       /\ last.result = "true" =>
            /\ selectedPiece # Null
            /\ Owner(board[selectedPiece.row][selectedPiece.col]) = currentPlayer
       /\ last.result = "false" => selectedPiece = prev.selectedPiece

\* C3 witness: a king was selected in place of the piece selected before,
\* while an opponent's piece and empty cells are on the board.
C3_Witness ==
  /\ last.op = "selectPiece" /\ last.result = "true"
  /\ prev.selectedPiece # Null /\ prev.selectedPiece # selectedPiece
  /\ IsKing(board[selectedPiece.row][selectedPiece.col])
  /\ PiecesOf(board, SwitchPlayer(currentPlayer)) # {}

\* C4: whenever a player has no piece on the board, gameOver is true: it is
\* set by the very movePiece call that captured the player's last piece.
C4_NoPiecesMeansGameOver ==
  (\E player \in Players : PiecesOf(board, player) = {}) => gameOver

\* C4 witness: the last call captured a player's last piece and set gameOver.
C4_Witness ==
  /\ Moved /\ ~prev.gameOver /\ gameOver
  /\ \E player \in Players :
       PiecesOf(board, player) = {} /\ PiecesOf(prev.board, player) # {}

\* The cells a selected piece of state s reaches by a diagonal move of n rows
\* and n columns.
Diagonal(s, n) ==
  {cell \in Cells : /\ Abs(cell[1] - s.selectedPiece.row) = n
                    /\ Abs(cell[2] - s.selectedPiece.col) = n}

\* movePiece(cell) in the present state returns true.
Succeeds(cell) == MovePiece(State, cell[1], cell[2]).result = "true"

\* The selected piece and, for a cell two steps away, the piece in between.
Selected == board[selectedPiece.row][selectedPiece.col]
Midpoint(cell) ==
  board[(selectedPiece.row + cell[1]) \div 2][(selectedPiece.col + cell[2]) \div 2]

\* A move to row targetRow takes the selected piece forward (toward row 0 for
\* red, toward row 7 for black).
Forward(piece, fromRow, targetRow) ==
  \/ Owner(piece) = "red" /\ targetRow < fromRow
  \/ Owner(piece) = "black" /\ targetRow > fromRow

\* C5: with a piece selected, a two-step diagonal move onto an empty cell
\* succeeds exactly when the cell in between holds a piece of the other
\* player, whatever the rank of the selected piece and the direction.
C5_JumpNeedsEnemyBetween ==
  selectedPiece # Null =>
    \A cell \in Diagonal(State, 2) :
      board[cell[1]][cell[2]] = "" =>
        (Succeeds(cell) <=>
           Owner(Midpoint(cell)) \in Players \ {Owner(Selected)})

\* C5 witness: a red man has jumped backward (away from row 0) over a black
\* piece, and the piece in between is gone.
C5_Witness ==
  /\ Moved
  /\ prev.board[Source[1]][Source[2]] = "red"
  /\ Target[1] = Source[1] + 2
  /\ Abs(Target[2] - Source[2]) = 2
  /\ Owner(prev.board[Source[1] + 1][(Source[2] + Target[2]) \div 2]) = "black"
  /\ board[Source[1] + 1][(Source[2] + Target[2]) \div 2] = ""

\* C6: with a man selected, a one-step diagonal move onto an empty cell
\* succeeds exactly when it is forward for the man's owner; with a king
\* selected it succeeds in either direction.
C6_MenStepForwardOnly ==
  selectedPiece # Null =>
    \A cell \in Diagonal(State, 1) :
      board[cell[1]][cell[2]] = "" =>
        (Succeeds(cell) <=>
           IsKing(Selected) \/ Forward(Selected, selectedPiece.row, cell[1]))

\* C6 witness: a man is selected that has an empty cell one step behind it,
\* which movePiece refuses, and an empty cell one step ahead, which it takes.
C6_Witness ==
  /\ last.op = "selectPiece" /\ last.result = "true"
  /\ IsMan(Selected)
  /\ \E back \in Diagonal(State, 1), ahead \in Diagonal(State, 1) :
       /\ board[back[1]][back[2]] = "" /\ board[ahead[1]][ahead[2]] = ""
       /\ ~Forward(Selected, selectedPiece.row, back[1])
       /\ Forward(Selected, selectedPiece.row, ahead[1])
       /\ ~Succeeds(back) /\ Succeeds(ahead)

\* The row on which a player's men are crowned.
FarRow(player) == IF player = "red" THEN 0 ELSE 7

\* C7: a man whose move ends on its owner's far row is a king of that owner
\* when the call returns; and a king, selected on a turn of its owner, moves
\* one step backward onto any empty diagonal cell.
C7_CrownedOnFarRow ==
  /\ Moved /\ IsMan(prev.board[Source[1]][Source[2]])
       /\ Target[1] = FarRow(Owner(prev.board[Source[1]][Source[2]]))
       => board[Target[1]][Target[2]]
            = KingTag(Owner(prev.board[Source[1]][Source[2]]))
  /\ \A from \in PiecesOf(board, currentPlayer) :
       IsKing(board[from[1]][from[2]]) =>
         LET held == SelectPiece(State, from[1], from[2]).state
         IN  \A cell \in Diagonal(held, 1) :
               /\ board[cell[1]][cell[2]] = ""
               /\ ~Forward(board[from[1]][from[2]], from[1], cell[1])
               => MovePiece(held, cell[1], cell[2]).result = "true"

\* C7 witness: the red man crowned on row 0 after the recorded game has, on
\* red's next turn, stepped back to row 1 as a king.
C7_Witness ==
  /\ Moved
  /\ moveCount = Len(Game) + 3
  /\ prev.board[Source[1]][Source[2]] = "red-king"
  /\ Source[1] = 0 /\ Target[1] = 1
  /\ board[Target[1]][Target[2]] = "red-king"

\* C8: right after initializeBoard, black men stand on the dark cells of rows
\* 0 to 2 and red men on the dark cells of rows 5 to 7, twelve a side, every
\* other cell is empty, red is to move, gameOver is false and no piece is
\* selected.
C8_StartingPosition ==
  last.op = "initializeBoard" =>
    /\ \A cell \in Cells :
         board[cell[1]][cell[2]] =
           IF (cell[1] + cell[2]) % 2 = 1 /\ cell[1] \in 0 .. 2 THEN "black"
           ELSE IF (cell[1] + cell[2]) % 2 = 1 /\ cell[1] \in 5 .. 7 THEN "red"
           ELSE ""
    /\ Cardinality(PiecesOf(board, "red")) = 12
    /\ Cardinality(PiecesOf(board, "black")) = 12
    /\ currentPlayer = "red"
    /\ ~gameOver
    /\ selectedPiece = Null

\* C8 witness: initializeBoard was called in the middle of a game, on black's
\* turn, with pieces captured.
C8_Witness ==
  /\ last.op = "initializeBoard"
  /\ DOMAIN prev.board = Rows
  /\ prev.currentPlayer = "black"
  /\ Cardinality(PiecesOf(prev.board, "red")) < 12
  /\ Cardinality(PiecesOf(board, "red")) = 12

\* C9: initializeBoard, called in any state, leaves the state the constructor
\* left, and a second call right after it changes nothing.
C9_ResetFromAnywhere ==
  /\ last.op = "initializeBoard" => State = Constructed
  /\ InitializeBoard(State) = Constructed
  /\ InitializeBoard(InitializeBoard(State)) = InitializeBoard(State)

\* C9 witness: initializeBoard was called after the game was over.
C9_Witness ==
  /\ last.op = "initializeBoard"
  /\ DOMAIN prev.board = Rows
  /\ prev.gameOver
  /\ State = Constructed

\* C10: movePiece with no piece selected returns false and changes nothing;
\* it does not throw.
C10_MoveWithoutSelectionFails ==
  last.op = "movePiece" /\ prev.selectedPiece = Null =>
    last.result = "false" /\ State = prev

\* C11: a selectPiece or movePiece call never takes gameOver from true to
\* false, whatever it returns; initializeBoard does.
C11_GameOverUntilReset ==
  /\ prev.gameOver /\ last.op \in {"selectPiece", "movePiece"} => gameOver
  /\ prev.gameOver /\ ~gameOver => last.op = "initializeBoard"
  /\ last.op = "initializeBoard" => ~gameOver
  /\ gameOver =>
       \A cell \in Cells :
         /\ SelectPiece(State, cell[1], cell[2]).state.gameOver
         /\ MovePiece(State, cell[1], cell[2]).state.gameOver

\* C11 witness: selectPiece was called after the game was over, and the game
\* is still over.
C11_Witness == last.op = "selectPiece" /\ prev.gameOver /\ gameOver

\* C12: every piece stands on a dark cell, one with row + col odd.
C12_PiecesOnDarkCells ==
  \A cell \in Cells :
    board[cell[1]][cell[2]] # "" => (cell[1] + cell[2]) % 2 = 1

\* C12 witness: a king has just jumped, and stands on a dark cell.
C12_Witness ==
  /\ Moved
  /\ Abs(Target[1] - Source[1]) = 2
  /\ IsKing(prev.board[Source[1]][Source[2]])
  /\ (Target[1] + Target[2]) % 2 = 1

\* The number of pieces of a player on board b.
Count(b, player) == Cardinality(PiecesOf(b, player))

\* C13: no player ever has more than twelve pieces; a successful jump takes
\* exactly one piece from the opponent of the mover and none from the mover;
\* every other selectPiece or movePiece call leaves both counts as they were.
C13_CountsOnlyFallByJumps ==
  /\ \A player \in Players : Count(board, player) <= 12
  /\ last.op \in {"selectPiece", "movePiece"} =>
       LET mover == prev.currentPlayer
           other == CHOOSE player \in Players : player # mover
       IN  IF Moved /\ Abs(Target[1] - Source[1]) = 2
           THEN /\ Count(board, other) = Count(prev.board, other) - 1
                /\ Count(board, mover) = Count(prev.board, mover)
           ELSE \A player \in Players :
                  Count(board, player) = Count(prev.board, player)

\* C13 witness: a jump has taken one of the opponent's pieces.
C13_Witness ==
  /\ Moved
  /\ Abs(Target[1] - Source[1]) = 2
  /\ Count(board, currentPlayer) = Count(prev.board, currentPlayer) - 1
  /\ Count(board, prev.currentPlayer) = Count(prev.board, prev.currentPlayer)

\* C14: with a piece selected, movePiece returns false for every target cell
\* that is occupied, or is not one or two diagonal steps away, or is two
\* diagonal steps away over a cell that is empty or holds a piece of the
\* mover's side.
C14_BadTargetsRefused ==
  selectedPiece # Null =>
    LET steps == Diagonal(State, 1)
        jumps == Diagonal(State, 2)
    IN  \A cell \in Cells :
          (\/ board[cell[1]][cell[2]] # ""
           \/ cell \notin steps \cup jumps
           \/ /\ cell \in jumps
              /\ Owner(Midpoint(cell)) \notin Players \ {Owner(Selected)})
          => /\ MovePiece(State, cell[1], cell[2]).result = "false"
             /\ MovePiece(State, cell[1], cell[2]).state = Rejected(State)

\* C14 witness: a piece is selected that has an occupied cell one step away,
\* an empty cell two steps away over a piece of its own side, an empty cell
\* two steps away over an empty cell and an empty cell off its diagonals;
\* movePiece refuses all four.
C14_Witness ==
  /\ last.op = "selectPiece" /\ last.result = "true"
  /\ \E taken \in Diagonal(State, 1) :
       board[taken[1]][taken[2]] # "" /\ ~Succeeds(taken)
  /\ \E over \in Diagonal(State, 2) :
       /\ board[over[1]][over[2]] = ""
       /\ Owner(Midpoint(over)) = Owner(Selected)
       /\ ~Succeeds(over)
  /\ \E over \in Diagonal(State, 2) :
       board[over[1]][over[2]] = "" /\ Midpoint(over) = "" /\ ~Succeeds(over)
  /\ \E off \in Cells \ (Diagonal(State, 1) \cup Diagonal(State, 2)) :
       board[off[1]][off[2]] = "" /\ ~Succeeds(off)

\* selectPiece(2, 1) and then movePiece(3, 2), from the present state.
BlackOpening ==
  LET sel == SelectPiece(State, 2, 1)
  IN  [sel |-> sel, mv |-> MovePiece(sel.state, 3, 2)]

\* C15, as claimed: right after initializeBoard, selectPiece(2, 1) followed by
\* movePiece(3, 2) succeeds, leaving (2,1) empty, a black man on (3,2) and the
\* other player to move.
C15_FreshBoardBlackOpening ==
  last.op = "initializeBoard" =>
    /\ BlackOpening.sel.result = "true"
    /\ BlackOpening.mv.result = "true"
    /\ BlackOpening.mv.state.board[2][1] = ""
    /\ BlackOpening.mv.state.board[3][2] = "black"
    /\ BlackOpening.mv.state.currentPlayer # currentPlayer

\* C15, amended: right after initializeBoard red is to move, so
\* selectPiece(2, 1) returns false and selects nothing, and movePiece(3, 2)
\* does not succeed; once red has made the first move of the game,
\* selectPiece(2, 1) followed by movePiece(3, 2) succeeds, leaving (2,1)
\* empty, a black man on (3,2) and red to move.
C15_BlackOpeningAfterRedMoved ==
  /\ last.op = "initializeBoard" =>
       /\ BlackOpening.sel.result = "false"
       /\ BlackOpening.sel.state.selectedPiece = Null
       /\ BlackOpening.mv.result # "true"
       /\ BlackOpening.mv.state.board = board
  /\ moveCount = 1 =>
       /\ BlackOpening.sel.result = "true"
       /\ BlackOpening.mv.result = "true"
       /\ BlackOpening.mv.state.board[2][1] = ""
       /\ BlackOpening.mv.state.board[3][2] = "black"
       /\ BlackOpening.mv.state.currentPlayer = "red"
       /\ currentPlayer = "black"
  /\ Moved /\ moveCount = 2 /\ Source = <<2, 1>> /\ Target = <<3, 2>> =>
       /\ board[2][1] = ""
       /\ board[3][2] = "black"
       /\ currentPlayer = "red"

\* C15 witness: red has made the first move of a game, and from there
\* selectPiece(2, 1) and movePiece(3, 2) both return true.
C15_Witness ==
  /\ Moved /\ moveCount = 1
  /\ prev.currentPlayer = "red"
  /\ BlackOpening.sel.result = "true"
  /\ BlackOpening.mv.result = "true"
  /\ BlackOpening.mv.state.board[3][2] = "black"

\* C16: when gameOver is true the player to move has no piece and the other
\* player, who made the last move, has some; no piece is selected and
\* selectPiece returns false for every cell; so no selectPiece or movePiece
\* call changes the board or the player to move.
C16_NothingMovesAfterGameOver ==
  /\ gameOver =>
       /\ PiecesOf(board, currentPlayer) = {}
       /\ PiecesOf(board, SwitchPlayer(currentPlayer)) # {}
       /\ selectedPiece = Null
       /\ \A cell \in Cells :
            SelectPiece(State, cell[1], cell[2]).result = "false"
  /\ Moved /\ gameOver /\ ~prev.gameOver =>
       /\ currentPlayer # prev.currentPlayer
       /\ PiecesOf(board, prev.currentPlayer) # {}
  /\ prev.gameOver /\ last.op \in {"selectPiece", "movePiece"} =>
       /\ last.result # "true"
       /\ board = prev.board
       /\ currentPlayer = prev.currentPlayer

\* C16 witness: after the game was over, with red the winner, a selectPiece
\* call failed and nothing is selected.
C16_Witness ==
  /\ last.op = "selectPiece" /\ last.result = "false"
  /\ prev.gameOver /\ gameOver
  /\ PiecesOf(board, "black") = {} /\ currentPlayer = "black"
  /\ selectedPiece = Null

\* After Moved: the move was a jump, and the cell it jumped.
Jumped == Abs(Target[1] - Source[1]) = 2
Between == <<(Source[1] + Target[1]) \div 2, (Source[2] + Target[2]) \div 2>>

\* C17: a successful movePiece empties the source cell, puts the moved piece
\* (or its owner's king) on the target cell, which is one or two diagonal
\* steps away, empties the cell in between if the move was a jump, and leaves
\* every other cell as it was; a one-step move removes no piece.
C17_MoveWritesOnlyItsCells ==
  Moved =>
    LET piece == prev.board[Source[1]][Source[2]]
        written == {Source, Target} \cup (IF Jumped THEN {Between} ELSE {})
    IN  /\ Abs(Target[1] - Source[1]) \in {1, 2}
        /\ Abs(Target[2] - Source[2]) = Abs(Target[1] - Source[1])
        /\ piece # ""
        /\ board[Source[1]][Source[2]] = ""
        /\ board[Target[1]][Target[2]] \in {piece, KingTag(Owner(piece))}
        /\ Jumped => board[Between[1]][Between[2]] = ""
        /\ \A cell \in Cells \ written :
             board[cell[1]][cell[2]] = prev.board[cell[1]][cell[2]]
        /\ ~Jumped =>
             \A player \in Players : Count(board, player) = Count(prev.board, player)

\* C17 witness: a man has jumped onto its far row: the cell it left and the
\* cell it jumped are empty and it stands crowned on the target cell.
C17_Witness ==
  /\ Moved /\ Jumped
  /\ IsMan(prev.board[Source[1]][Source[2]])
  /\ IsKing(board[Target[1]][Target[2]])
  /\ prev.board[Between[1]][Between[2]] # ""
  /\ board[Between[1]][Between[2]] = ""
  /\ board[Source[1]][Source[2]] = ""

\* C18: a selected piece is on the board and belongs to the player to move.
C18_SelectionIsOwnPiece ==
  selectedPiece # Null =>
    /\ selectedPiece.row \in Rows
    /\ selectedPiece.col \in Rows
    /\ Owner(Selected) = currentPlayer

\* C18 witness: a king stays selected after a selectPiece call on another
\* cell has failed.
C18_Witness ==
  /\ last.op = "selectPiece" /\ last.result = "false"
  /\ selectedPiece # Null
  /\ IsKing(Selected)
  /\ Owner(Selected) = currentPlayer

\* C19: the piece a successful movePiece puts on the target cell has the owner
\* of the piece that stood on the source cell, who was the player to move,
\* and is a king if that piece was a king.
C19_MoveKeepsOwnerAndCrown ==
  Moved =>
    LET piece == prev.board[Source[1]][Source[2]]
    IN  /\ Owner(piece) = prev.currentPlayer
        /\ Owner(board[Target[1]][Target[2]]) = Owner(piece)
        /\ IsKing(piece) => IsKing(board[Target[1]][Target[2]])

\* C19 witness: a king has moved back onto its owner's far row, where the
\* promotion writes the king tag again.
C19_Witness ==
  /\ Moved
  /\ IsKing(prev.board[Source[1]][Source[2]])
  /\ Target[1] = FarRow(prev.currentPlayer)
  /\ board[Target[1]][Target[2]] = prev.board[Source[1]][Source[2]]

\* C20 (under SpecUI): through handleClick and resetGame, movePiece is called
\* only with a piece selected, so it never throws; and once gameOver is true a
\* click changes neither the board nor the player to move nor the selection.
C20_ClicksNeverMoveUnselected ==
  /\ last.op = "movePiece" =>
       prev.selectedPiece # Null /\ last.result \in {"true", "false"}
  /\ prev.gameOver /\ last.op # "initializeBoard" =>
       /\ last.op = "none"
       /\ board = prev.board
       /\ currentPlayer = prev.currentPlayer
       /\ selectedPiece = prev.selectedPiece
       /\ gameOver

\* C20 witness: the game was won by clicks alone, and a click after that was
\* dropped.
C20_Witness ==
  /\ last.op = "none"
  /\ prev.gameOver /\ gameOver
  /\ moveCount = Len(Game) + 1
  /\ State = prev

====
